---- MODULE Spec2Model ----
(***************************************************************************)
(* A model of daemon/response.py (class Response): the content-type        *)
(* resolver, the content loader with its truncate-on-read of return.json,  *)
(* the header renderer and the response assembler.                         *)
(*                                                                         *)
(* Representation.  A text (str) is a sequence of tokens; a body (bytes)   *)
(* is a sequence of one-character tokens, one per byte.  A rendered        *)
(* response is a sequence of lines and bytes: the status line, one element *)
(* per header line, the blank line, then one element per body byte.  Header*)
(* values are assumed to hold no CR/LF.  A path is a sequence of tokens    *)
(* ("/", a name, an extension such as ".json"), so that str.endswith,      *)
(* str.lstrip and os.path.join are computed on the tokens.                 *)
(***************************************************************************)
EXTENDS Integers, Sequences, FiniteSets, TLC

\* ---------------------------------------------------------------- bounds
\* Longest content a file holds or another party writes, in bytes.
MaxFileLen == 1
\* Writes by another party while the concurrent requests run.
MaxWrites == 2

\* ------------------------------------------------------------- environment
\* The extension table of the mimetypes module, which get_mime_type reads.
VARIABLE types_map

\* ------------------------------------------------------------ text helpers
Digits == <<"0", "1", "2", "3", "4", "5", "6", "7", "8", "9">>

RECURSIVE Dec(_)
\* str(n) of a natural number, as f"{n}" renders it: its decimal digits.
Dec(n) == IF n < 10 THEN <<Digits[n + 1]>> ELSE Dec(n \div 10) \o <<Digits[(n % 10) + 1]>>

DigitValue(c) == CHOOSE d \in 0..9 : Digits[d + 1] = c

IsDigit(c) == \E d \in 0..9 : Digits[d + 1] = c

RECURSIVE ParseDec(_)
\* int(text) of a non-empty sequence of decimal digits.
ParseDec(t) ==
  IF Len(t) = 1 THEN DigitValue(t[1])
  ELSE 10 * ParseDec(SubSeq(t, 1, Len(t) - 1)) + DigitValue(t[Len(t)])

\* s.endswith(suffix)
EndsWith(s, suffix) ==
  /\ Len(s) >= Len(suffix)
  /\ SubSeq(s, Len(s) - Len(suffix) + 1, Len(s)) = suffix

RECURSIVE LStrip(_, _)
\* s.lstrip(c)
LStrip(s, c) == IF s # <<>> /\ s[1] = c THEN LStrip(Tail(s), c) ELSE s

\* os.path.join(base, rel) for a relative rel
PathJoin(base, rel) ==
  IF base = <<>> \/ base[Len(base)] = "/" THEN base \o rel ELSE base \o <<"/">> \o rel

\* The part of a path after its last "/" (os.path.basename).
Basename(p) ==
  LET slashes == {i \in 1..Len(p) : p[i] = "/"}
  IN  IF slashes = {} THEN p
      ELSE SubSeq(p, (CHOOSE i \in slashes : \A j \in slashes : j <= i) + 1, Len(p))

RECURSIVE Join(_, _)
\* sep.join(parts), the parts being texts
Join(parts, sep) ==
  IF parts = <<>> THEN <<>>
  ELSE IF Len(parts) = 1 THEN parts[1]
  ELSE parts[1] \o sep \o Join(Tail(parts), sep)

\* ------------------------------------------------------------ Python values
PyNone == [tag |-> "none", v |-> <<>>]
PyStr(t) == [tag |-> "str", v |-> t]
PyInt(n) == [tag |-> "int", v |-> n]
PyDict(items) == [tag |-> "dict", v |-> items]
PyList(items) == [tag |-> "list", v |-> items]
PyTuple(items) == [tag |-> "tuple", v |-> items]

OK == <<"OK">>

\* bool(x): None, 0, "" and empty containers are falsy.
Truthy(x) ==
  CASE x.tag = "none" -> FALSE
    [] x.tag = "int" -> x.v # 0
    [] OTHER -> x.v # <<>>

\* str(x) as an f-string renders it, for the values a status line can meet.
Format(x) ==
  CASE x.tag = "none" -> <<"None">>
    [] x.tag = "str" -> x.v
    [] x.tag = "int" -> Dec(x.v)
    [] x.tag = "tuple" ->
         <<"(">> \o Join([i \in 1..Len(x.v) |-> Dec(x.v[i])], <<",", " ">>)
                 \o (IF Len(x.v) = 1 THEN <<",">> ELSE <<>>) \o <<")">>
    [] OTHER -> <<"<", x.tag, ">">>

\* json.dumps(x).encode('utf-8') of a dict of one-letter keys to small
\* numbers, or of a list of small numbers: one token per byte.
json_dumps(x) ==
  IF x.tag = "dict"
  THEN <<"{">> \o Join([i \in 1..Len(x.v) |->
                          <<"\"", x.v[i][1], "\"", ":", " ">> \o Dec(x.v[i][2])],
                       <<",", " ">>) \o <<"}">>
  ELSE <<"[">> \o Join([i \in 1..Len(x.v) |-> Dec(x.v[i])], <<",", " ">>) \o <<"]">>

\* ------------------------------------------------------------- MIME types
TextHtml == <<"text", "/", "html">>
TextCss == <<"text", "/", "css">>
ImagePng == <<"image", "/", "png">>
VideoMp4 == <<"video", "/", "mp4">>
ApplicationJson == <<"application", "/", "json">>
OctetStream == <<"application", "/", "octet-stream">>
\* A type with no "/" separator, as a line of a system mime.types file or a
\* call of mimetypes.add_type can register for an extension.
Bogus == <<"bogus">>

\* The extension table mimetypes.guess_type starts with.
StandardTypes ==
  [e \in {".html", ".css", ".png", ".mp4", ".json"} |->
     CASE e = ".html" -> TextHtml
       [] e = ".css" -> TextCss
       [] e = ".png" -> ImagePng
       [] e = ".mp4" -> VideoMp4
       [] OTHER -> ApplicationJson]

\* Response.get_mime_type: the type the table gives the path's extension,
\* or application/octet-stream.
get_mime_type(path) ==
  IF path # <<>> /\ path[Len(path)] \in DOMAIN types_map
  THEN types_map[path[Len(path)]]
  ELSE OctetStream

\* ---------------------------------------------------------------- headers
\* dict.get(key, default)
Get(d, key, default) == IF key \in DOMAIN d THEN d[key] ELSE default

\* d[key] = value
Put(d, key, value) == [k \in DOMAIN d \cup {key} |-> IF k = key THEN value ELSE d[k]]

NoHeaders == [k \in {} |-> <<>>]

\* ------------------------------------------------- content-type resolver
BASE_DIR == <<>>

\* mime_type.split('/', 1): the parts around the first "/", one part when
\* there is none.
Split1(mime) ==
  LET slashes == {i \in 1..Len(mime) : mime[i] = "/"}
  IN  IF slashes = {} THEN <<mime>>
      ELSE LET i == CHOOSE k \in slashes : \A j \in slashes : k <= j
           IN  <<SubSeq(mime, 1, i - 1), SubSeq(mime, i + 1, Len(mime))>>

\* Response.prepare_content_type: the base directory of a MIME type; raises
\* (ValueError, at the unpacking of the split) before it touches the headers
\* when the type has no "/".
prepare_content_type(headers, mime_type) ==
  LET parts == Split1(mime_type)
  IN  IF Len(parts) # 2
      THEN [raised |-> TRUE, base_dir |-> <<>>, headers |-> headers]
      ELSE LET main_type == parts[1]
               sub_type == parts[2]
               base_dir ==
                 CASE main_type = <<"text">> ->
                        IF sub_type \in {<<"plain">>, <<"css">>, <<"csv">>, <<"xml">>}
                        THEN BASE_DIR \o <<"static", "/">>
                        ELSE IF sub_type = <<"html">>
                        THEN BASE_DIR \o <<"www", "/">>
                        ELSE BASE_DIR \o <<"static", "/">>
                   [] main_type = <<"image">> -> BASE_DIR \o <<"static", "/">>
                   [] main_type = <<"application">> -> BASE_DIR \o <<"apps", "/">>
                   [] main_type = <<"video">> -> BASE_DIR \o <<"video", "/">>
                   [] OTHER -> BASE_DIR \o <<"static", "/">>
           IN  [raised |-> FALSE, base_dir |-> base_dir,
                headers |-> Put(headers, "Content-Type", PyStr(mime_type))]

\* ---------------------------------------------------------- content loader
\* A file of the file system: absent, or present with its permissions and
\* its bytes.  "unreadable" stands for any failure of open/read other than
\* absence, "readonly" for a file that opens for reading but not for writing.
Absent == [mode |-> "absent", data |-> <<>>]

FileAt(fs, filepath) == IF filepath \in DOMAIN fs THEN fs[filepath] ELSE Absent

ReturnJson == <<"return", ".json">>

\* open(filepath, "rb") and f.read()
OpenRead(fs, filepath) ==
  LET f == FileAt(fs, filepath)
  IN  CASE f.mode = "absent" -> [exc |-> "FileNotFoundError", content |-> <<>>]
        [] f.mode = "unreadable" -> [exc |-> "Exception", content |-> <<>>]
        [] OTHER -> [exc |-> "none", content |-> f.data]

\* open(filepath, "w") and f.write(""): creates the file when it is absent.
OpenWriteEmpty(fs, filepath) ==
  LET f == FileAt(fs, filepath)
  IN  IF f.mode \in {"readonly", "unreadable"}
      THEN [exc |-> "Exception", fs |-> fs]
      ELSE [exc |-> "none", fs |-> Put(fs, filepath, [mode |-> "rw", data |-> <<>>])]

\* A slip: the path compared with the bare file name.
ClearsAfterRead_BareName(path) == path = ReturnJson

\* The test that guards the truncation, on the path as given.
ClearsAfterRead(path) == EndsWith(path, ReturnJson)

\* A slip: the length taken from the file after it was cleared
\* (os.path.getsize) instead of from the bytes read.
build_content_SizeAfterClear(fs, path, base_dir) ==
  LET filepath == PathJoin(base_dir, LStrip(path, "/"))
      r == OpenRead(fs, filepath)
  IN  IF r.exc # "none"
      THEN [len |-> 0, content |-> <<>>, fs |-> fs]
      ELSE IF ClearsAfterRead(path)
      THEN LET w == OpenWriteEmpty(fs, filepath)
           IN  IF w.exc # "none"
               THEN [len |-> 0, content |-> <<>>, fs |-> fs]
               ELSE [len |-> Len(FileAt(w.fs, filepath).data), content |-> r.content,
                     fs |-> w.fs]
      ELSE [len |-> Len(r.content), content |-> r.content, fs |-> fs]

\* Response.build_content, run without interruption.
build_content(fs, path, base_dir) ==
  LET filepath == PathJoin(base_dir, LStrip(path, "/"))
      r == OpenRead(fs, filepath)
  IN  IF r.exc # "none"
      THEN [len |-> 0, content |-> <<>>, fs |-> fs]
      ELSE IF ClearsAfterRead(path)
      THEN LET w == OpenWriteEmpty(fs, filepath)
           IN  IF w.exc # "none"
               THEN [len |-> 0, content |-> <<>>, fs |-> fs]
               ELSE [len |-> Len(r.content), content |-> r.content, fs |-> w.fs]
      ELSE [len |-> Len(r.content), content |-> r.content, fs |-> fs]

\* --------------------------------------------------------- header renderer
\* The elements of a rendered response.
StatusLine(text) == [kind |-> "status", name |-> "HTTP/1.1", value |-> text]
HeaderLine(k, v) == [kind |-> "header", name |-> k, value |-> v]
BlankLine == [kind |-> "blank", name |-> "", value |-> <<>>]
Byte(b) == [kind |-> "byte", name |-> b, value |-> <<>>]

\* text.encode('utf-8') of a body: one element per byte.
Bytes(content) == [i \in 1..Len(content) |-> Byte(content[i])]

\* The cookie mapping (CaseInsensitiveDict, imported from .dictionary): an
\* insertion-ordered mapping, here the sequence of its (name, value) items.
NoCookies == <<>>

\* cookies.items()
CookieItems(cookies) == cookies

\* bool(cookies)
CookieBool(cookies) == cookies # <<>>

\* cookies[name] = value, names compared case-insensitively (the names of
\* the model are lower-case): a known name keeps its place.
CookieSet(cookies, name, value) ==
  IF \E i \in 1..Len(cookies) : cookies[i][1] = name
  THEN [i \in 1..Len(cookies) |->
          IF cookies[i][1] = name THEN <<name, value>> ELSE cookies[i]]
  ELSE Append(cookies, <<name, value>>)

\* A slip: the cookies joined into one Set-Cookie line.
SetCookieLines_Joined(cookies) ==
  LET items == CookieItems(cookies)
  IN  IF CookieBool(cookies)
      THEN << HeaderLine("Set-Cookie",
                Join([i \in 1..Len(items) |-> <<items[i][1], "=", items[i][2]>>],
                     <<";", " ">>)) >>
      ELSE <<>>

\* The Set-Cookie lines: one per item of the cookie mapping, none when the
\* mapping is empty.
SetCookieLines(cookies) ==
  LET items == CookieItems(cookies)
  IN  IF CookieBool(cookies)
      THEN [i \in 1..Len(items) |->
              HeaderLine("Set-Cookie", <<items[i][1], "=", items[i][2]>>)]
      ELSE <<>>

\* The reason the status line shows.
DisplayReason(reason) ==
  IF reason.tag \in {"dict", "list"} THEN PyStr(OK)
  ELSE IF Truthy(reason) THEN reason ELSE PyStr(OK)

\* f"{v}" of a header value: a text as it is, a number in decimal.
HeaderValue(v) == IF v.tag = "int" THEN Dec(v.v) ELSE v.v

\* Response.build_response_header: the status line, the header lines in the
\* order of the headers dict, the Set-Cookie lines and the blank line.
build_response_header(resp, request, now) ==
  LET reqhdr == request.headers
      c_type == Get(resp.headers, "Content-Type", PyStr(OctetStream))
      c_len == Get(resp.headers, "Content-Length", PyStr(<<"0">>))
      headers ==
        << HeaderLine("Accept", Get(reqhdr, "Accept", ApplicationJson)),
           HeaderLine("Accept-Language", Get(reqhdr, "Accept-Language", <<"en-US,en;q=0.9">>)),
           HeaderLine("Cache-Control", <<"no-cache">>),
           HeaderLine("Content-Type", HeaderValue(c_type)),
           HeaderLine("Content-Length", HeaderValue(c_len)),
           HeaderLine("Date", now),
           HeaderLine("Server", <<"WeApRous/1.0">>),
           HeaderLine("Connection", <<"close">>) >>
      status_line ==
        StatusLine(Format(resp.status_code) \o <<" ">> \o Format(DisplayReason(resp.reason)))
  IN  <<status_line>> \o headers \o SetCookieLines(resp.cookies) \o <<BlankLine>>

\* --------------------------------------------------- fixed error responses
NotFoundBody == <<"4", "0", "4", " ", "N", "o", "t", " ", "F", "o", "u", "n", "d">>
NotFoundLength == 13

\* Response.build_notfound
build_notfound ==
  << StatusLine(<<"404", " ", "Not Found">>),
     HeaderLine("Content-Type", TextHtml),
     HeaderLine("Content-Length", Dec(NotFoundLength)),
     HeaderLine("Connection", <<"close">>),
     BlankLine >> \o Bytes(NotFoundBody)

UnauthorizedBody ==
  <<"4", "0", "1", " ", "U", "n", "a", "u", "t", "h", "o", "r", "i", "z", "e", "d">>

\* Response.build_unauthorized
build_unauthorized ==
  << StatusLine(<<"401", " ", "Unauthorized">>),
     HeaderLine("Content-Type", <<"text", "/", "plain">>),
     HeaderLine("Content-Length", Dec(Len(UnauthorizedBody))),
     HeaderLine("Connection", <<"close">>),
     BlankLine >> \o Bytes(UnauthorizedBody)

\* ------------------------------------------------------ response assembler
\* The directory above the module's own (os.path.dirname, twice).
project_root == <<"/", "srv">>

\* os.path.isabs
IsAbs(p) == p # <<>> /\ p[1] = "/"

\* Response.__init__
NewResponse ==
  [status_code |-> PyNone, reason |-> PyNone, headers |-> NoHeaders,
   cookies |-> NoCookies, _content |-> [tag |-> "bool", v |-> FALSE]]

\* Steps 2 and 3 of build_response: the path, the type and the base
\* directory of a file-backed request, or the raise of the resolver.
ResolvePath(resp, request) ==
  LET path == request.path
      mime_type == get_mime_type(path)
  IN  IF path \in {<<"/", "api", "/", "get-messages">>, <<"/", "api", "/", "get-message">>}
      THEN [raised |-> FALSE, path |-> <<"db", "/", "message", ".json">>,
            mime_type |-> ApplicationJson, base_dir |-> project_root,
            headers |-> resp.headers]
      ELSE IF path = <<"/", "api", "/", "get-users">>
      THEN [raised |-> FALSE, path |-> <<"db", "/", "user", ".json">>,
            mime_type |-> ApplicationJson, base_dir |-> project_root,
            headers |-> resp.headers]
      ELSE LET mt == IF mime_type = OctetStream THEN ApplicationJson ELSE mime_type
               r == prepare_content_type(resp.headers, mt)
           IN  [raised |-> r.raised, path |-> path, mime_type |-> mt,
                base_dir |-> IF IsAbs(r.base_dir) THEN r.base_dir
                             ELSE PathJoin(project_root, r.base_dir),
                headers |-> r.headers]

\* The file a resolved request reads.
FilePath(plan) == PathJoin(plan.base_dir, LStrip(plan.path, "/"))

\* A slip: reason is not reset after the payload is serialized.
BuildJson_KeepsReason(resp, request, now) ==
  LET json_bytes == json_dumps(resp.reason)
      r == [resp EXCEPT
              !._content = [tag |-> "bytes", v |-> json_bytes],
              !.status_code = IF resp.status_code.tag = "none" THEN PyInt(200)
                              ELSE resp.status_code,
              !.headers = Put(Put(resp.headers, "Content-Type", PyStr(ApplicationJson)),
                              "Content-Length", PyInt(Len(json_bytes)))]
  IN  [out |-> build_response_header(r, request, now) \o Bytes(r._content.v), resp |-> r]

\* Step 1 of build_response: the dynamic-JSON branch.
BuildJson(resp, request, now) ==
  LET json_bytes == json_dumps(resp.reason)
      r == [resp EXCEPT
              !._content = [tag |-> "bytes", v |-> json_bytes],
              !.status_code = IF resp.status_code.tag = "none" THEN PyInt(200)
                              ELSE resp.status_code,
              !.reason = PyStr(OK),
              !.headers = Put(Put(resp.headers, "Content-Type", PyStr(ApplicationJson)),
                              "Content-Length", PyInt(Len(json_bytes)))]
  IN  [out |-> build_response_header(r, request, now) \o Bytes(r._content.v), resp |-> r]

\* Step 4 of build_response, after the content is loaded.
BuildFile(resp, plan, c_len, content, request, now) ==
  LET r1 == [resp EXCEPT
               !._content = [tag |-> "bytes", v |-> content],
               !.headers = Put(Put(plan.headers, "Content-Type", PyStr(plan.mime_type)),
                               "Content-Length", PyInt(c_len))]
      r == IF r1.status_code.tag = "none"
           THEN [r1 EXCEPT !.status_code = PyInt(200), !.reason = PyStr(OK)]
           ELSE r1
  IN  [out |-> build_response_header(r, request, now) \o Bytes(r._content.v), resp |-> r]

\* A stricter design: a file that cannot be opened is answered 404.
build_response_MissingIs404(resp, fs, request, now) ==
  IF resp.reason.tag \in {"dict", "list"}
  THEN LET b == BuildJson(resp, request, now)
       IN  [out |-> b.out, resp |-> b.resp, fs |-> fs]
  ELSE LET plan == ResolvePath(resp, request)
       IN  IF plan.raised \/ OpenRead(fs, FilePath(plan)).exc # "none"
           THEN [out |-> build_notfound, resp |-> resp, fs |-> fs]
           ELSE LET c == build_content(fs, plan.path, plan.base_dir)
                    b == BuildFile(resp, plan, c.len, c.content, request, now)
                IN  [out |-> b.out, resp |-> b.resp, fs |-> c.fs]

\* Response.build_response, run without interruption: the bytes returned,
\* the Response and the file system it leaves.
build_response(resp, fs, request, now) ==
  IF resp.reason.tag \in {"dict", "list"}
  THEN LET b == BuildJson(resp, request, now)
       IN  [out |-> b.out, resp |-> b.resp, fs |-> fs]
  ELSE LET plan == ResolvePath(resp, request)
       IN  IF plan.raised
           THEN [out |-> build_notfound, resp |-> resp, fs |-> fs]
           ELSE LET c == build_content(fs, plan.path, plan.base_dir)
                    b == BuildFile(resp, plan, c.len, c.content, request, now)
                IN  [out |-> b.out, resp |-> b.resp, fs |-> c.fs]

\* ------------------------------------------------------------------ inputs
\* The files of the model's file system, by their full paths.
AppsReturnJson == <<"/", "srv", "/", "apps", "/", "return", ".json">>
AppsNoReturnJson == <<"/", "srv", "/", "apps", "/", "no", "return", ".json">>
DbUserJson == <<"/", "srv", "/", "db", "/", "user", ".json">>
Files == {AppsReturnJson, AppsNoReturnJson, DbUserJson}

\* The files whose reads are counted: those a path ending in return.json names.
QueueFiles == {AppsReturnJson, AppsNoReturnJson}

FileBytes == {"a", "b"}

\* The byte strings of at most n bytes.
BytesUpTo(n) == UNION {[1..k -> FileBytes] : k \in 0..n}

Contents == BytesUpTo(MaxFileLen)

\* The file systems a run can start from.
InitialFileSystems ==
  {[f \in Files |->
      CASE f = AppsReturnJson -> r
        [] f = AppsNoReturnJson -> n
        [] OTHER -> [mode |-> "rw", data |-> <<"a">>]] :
     r \in {Absent} \cup [mode : {"rw", "readonly", "unreadable"}, data : Contents],
     n \in {Absent, [mode |-> "rw", data |-> <<"a">>]}}

Request(path, accept) ==
  [path |-> path, method |-> "GET",
   headers |-> IF accept THEN [k \in {"Accept"} |-> TextHtml] ELSE NoHeaders]

Requests ==
  { Request(<<"/", "index", ".html">>, TRUE),
    Request(<<"/", "return", ".json">>, FALSE),
    Request(<<"/", "no", "return", ".json">>, FALSE),
    Request(<<"/", "api", "/", "get-users">>, FALSE),
    Request(<<"/", "api", "/", "get-messages">>, FALSE),
    Request(<<"/", "data">>, FALSE),
    Request(<<"/", "x", ".bog">>, FALSE) }

\* The requests of the direct calls of build_response_header, which reads
\* only the request's headers.
HeaderRequests ==
  {Request(<<"/", "index", ".html">>, TRUE), Request(<<"/", "data">>, FALSE)}

\* What application code stores in reason, status_code and the cookies.
Reasons ==
  { PyStr(<<"Not Found">>), PyStr(<<>>), PyDict(<<>>), PyDict(<< <<"a", 1>> >>),
    PyList(<<1, 2>>), PyTuple(<<1, 2>>), PyInt(5) }

StatusCodes == {404}

CookieValues == [sid |-> "1", theme |-> "dark"]

\* The arguments of a direct call of prepare_content_type.
MimeInputs ==
  { TextHtml, TextCss, <<"text", "/", "markdown">>, ImagePng, ApplicationJson,
    VideoMp4, <<"audio", "/", "mpeg">>, Bogus, <<>> }

\* datetime.utcnow() as the Date header shows it.
Dates == {<<"Mon, 02 Nov 2026 00:00:00 GMT">>}

NoRequest == Request(<<>>, FALSE)

\* ------------------------------------------------------------------- state
VARIABLES
  resp,        \* the Response of the request being handled
  fs,          \* the file system: full path -> file
  pc,          \* "handler": application code runs; "done": the call returned
  call,        \* the call that ended the handler, with the state before it
  out,         \* the bytes the call returned
  readsSince,  \* per queue file: the build_content reads since its last write
  worker,      \* concurrent requests: each one's Response and its place in build_response
  writes       \* concurrent requests: the writes of another party so far

vars == <<resp, fs, pc, call, out, readsSince, worker, writes, types_map>>

\* The state of the requests that run concurrently on one file system.
concvars == <<worker, writes>>

\* The state of the requests handled one at a time.
seqvars == <<resp, pc, call, out, readsSince, types_map>>

Workers == {1, 2}

\* A connection with no request yet.
Idle ==
  [pc |-> "idle", resp |-> NewResponse, request |-> NoRequest, content |-> <<>>,
   len |-> 0, truncated |-> FALSE, erased |-> <<>>, out |-> <<>>]

\* The reads of a queue file since its last write: how many (0, 1, 2 for two
\* or more) and what the first of them returned.
NoReads == [n |-> 0, first |-> <<>>]

NoCall ==
  [op |-> "none", request |-> NoRequest, mime |-> <<>>, pre |-> NewResponse,
   fsPre |-> [f \in Files |-> Absent], reads |-> NoReads, raised |-> FALSE, base_dir |-> <<>>]

Init ==
  /\ resp = NewResponse
  /\ fs \in InitialFileSystems
  /\ pc = "handler"
  /\ call = NoCall
  /\ out = <<>>
  /\ readsSince = [f \in QueueFiles |-> NoReads]
  /\ worker = [w \in Workers |-> Idle]
  /\ writes = 0
  /\ types_map = StandardTypes

\* Application code sets status_code.
SetStatus(code) ==
  /\ pc = "handler"
  /\ UNCHANGED concvars
  /\ resp' = [resp EXCEPT !.status_code = PyInt(code)]
  /\ UNCHANGED <<fs, pc, call, out, readsSince, types_map>>

\* Application code sets reason: a status text, a JSON payload or another value.
SetReason(r) ==
  /\ pc = "handler"
  /\ UNCHANGED concvars
  /\ resp' = [resp EXCEPT !.reason = r]
  /\ UNCHANGED <<fs, pc, call, out, readsSince, types_map>>

\* Application code sets a cookie.
SetCookie(name) ==
  /\ pc = "handler"
  /\ UNCHANGED concvars
  /\ resp' = [resp EXCEPT !.cookies = CookieSet(resp.cookies, name, CookieValues[name])]
  /\ UNCHANGED <<fs, pc, call, out, readsSince, types_map>>

\* Another party writes a queue file between two requests.
ExternalWrite(f, data) ==
  /\ pc = "handler"
  /\ UNCHANGED concvars
  /\ fs' = Put(fs, f, [mode |-> IF fs[f].mode = "absent" THEN "rw" ELSE fs[f].mode,
                       data |-> data])
  /\ readsSince' = [readsSince EXCEPT ![f] = NoReads]
  /\ UNCHANGED <<resp, pc, call, out, types_map>>

\* The environment registers a type for an extension (a line of a system
\* mime.types file, a call of mimetypes.add_type): here one with no "/".
AddType(ext, type) ==
  /\ pc = "handler"
  /\ UNCHANGED concvars
  /\ ext \notin DOMAIN types_map
  /\ types_map' = Put(types_map, ext, type)
  /\ UNCHANGED <<resp, fs, pc, call, out, readsSince>>

\* The reads after one more, which returned content.
OneMore(r, content) ==
  [n |-> IF r.n < 2 THEN r.n + 1 ELSE 2, first |-> IF r.n = 0 THEN content ELSE r.first]

\* The file a call of build_response reads: none on the dynamic-JSON branch
\* and when the resolver raises.
ReadsFile(r, request) ==
  /\ r.reason.tag \notin {"dict", "list"}
  /\ ~ResolvePath(r, request).raised

\* A call of build_response(request).
BuildResponse(request, now) ==
  /\ pc = "handler"
  /\ UNCHANGED concvars
  /\ LET b == build_response(resp, fs, request, now)
         f == FilePath(ResolvePath(resp, request))
         counted == ReadsFile(resp, request) /\ f \in QueueFiles
     IN  /\ resp' = b.resp
         /\ fs' = b.fs
         /\ out' = b.out
         /\ call' = [NoCall EXCEPT !.op = "build_response", !.request = request,
                       !.pre = resp, !.fsPre = fs,
                       !.reads = IF counted THEN readsSince[f] ELSE NoReads]
         /\ readsSince' = IF counted
                          THEN [readsSince EXCEPT ![f] = OneMore(@, b.resp._content.v)]
                          ELSE readsSince
  /\ pc' = "done"
  /\ UNCHANGED types_map

\* A direct call of build_response_header(request).
BuildResponseHeader(request, now) ==
  /\ pc = "handler"
  /\ UNCHANGED concvars
  /\ out' = build_response_header(resp, request, now)
  /\ call' = [NoCall EXCEPT !.op = "build_response_header", !.request = request,
                !.pre = resp, !.fsPre = fs]
  /\ pc' = "done"
  /\ UNCHANGED <<resp, fs, readsSince, types_map>>

\* A call of build_notfound().
BuildNotFound ==
  /\ pc = "handler"
  /\ UNCHANGED concvars
  /\ out' = build_notfound
  /\ call' = [NoCall EXCEPT !.op = "build_notfound", !.pre = resp, !.fsPre = fs]
  /\ pc' = "done"
  /\ UNCHANGED <<resp, fs, readsSince, types_map>>

\* A call of build_unauthorized().
BuildUnauthorized ==
  /\ pc = "handler"
  /\ UNCHANGED concvars
  /\ out' = build_unauthorized
  /\ call' = [NoCall EXCEPT !.op = "build_unauthorized", !.pre = resp, !.fsPre = fs]
  /\ pc' = "done"
  /\ UNCHANGED <<resp, fs, readsSince, types_map>>

\* A direct call of prepare_content_type(mime_type).
PrepareContentType(mime_type) ==
  /\ pc = "handler"
  /\ UNCHANGED concvars
  /\ LET r == prepare_content_type(resp.headers, mime_type)
     IN  /\ resp' = [resp EXCEPT !.headers = r.headers]
         /\ call' = [NoCall EXCEPT !.op = "prepare_content_type", !.mime = mime_type,
                       !.pre = resp, !.fsPre = fs, !.raised = r.raised,
                       !.base_dir = r.base_dir]
  /\ pc' = "done"
  /\ UNCHANGED <<fs, out, readsSince, types_map>>

\* The response is flushed and discarded; the next request gets a new one.
NextRequest ==
  /\ pc = "done"
  /\ UNCHANGED concvars
  /\ resp' = NewResponse
  /\ pc' = "handler"
  /\ call' = NoCall
  /\ out' = <<>>
  /\ UNCHANGED <<fs, readsSince, types_map>>

Next ==
  \/ \E code \in StatusCodes : SetStatus(code)
  \/ \E r \in Reasons : SetReason(r)
  \/ \E name \in DOMAIN CookieValues : SetCookie(name)
  \/ \E data \in Contents \ {<<>>} : ExternalWrite(AppsReturnJson, data)
  \/ AddType(".bog", Bogus)
  \/ \E request \in Requests, now \in Dates : BuildResponse(request, now)
  \/ \E request \in HeaderRequests, now \in Dates : BuildResponseHeader(request, now)
  \/ BuildNotFound
  \/ BuildUnauthorized
  \/ \E m \in MimeInputs : PrepareContentType(m)
  \/ NextRequest

Spec == Init /\ [][Next]_vars

\* ------------------------------------------------------ concurrent requests
\* Two requests served at once, each with a Response of its own, on the one
\* file system.  build_content is taken step by step: the open-and-read, the
\* open-for-writing that truncates, and the return into build_response.

ConcRequests == {Request(<<"/", "return", ".json">>, FALSE)}

\* build_response up to the call of build_content (lines 184-222).
Start(w, request) ==
  /\ worker[w].pc = "idle"
  /\ ~ResolvePath(NewResponse, request).raised
  /\ worker' = [worker EXCEPT ![w] = [Idle EXCEPT !.pc = "read", !.request = request]]
  /\ UNCHANGED <<fs, writes, seqvars>>

\* build_content: open(filepath, "rb") and read (lines 87-89, 97-102).
ReadStep(w) ==
  /\ worker[w].pc = "read"
  /\ LET plan == ResolvePath(worker[w].resp, worker[w].request)
         r == OpenRead(fs, FilePath(plan))
     IN  worker' = [worker EXCEPT ![w] =
           IF r.exc # "none"
           THEN [@ EXCEPT !.pc = "render", !.content = <<>>, !.len = 0]
           ELSE [@ EXCEPT !.pc = IF ClearsAfterRead(plan.path) THEN "truncate" ELSE "render",
                          !.content = r.content, !.len = Len(r.content)]]
  /\ UNCHANGED <<fs, writes, seqvars>>

\* A silent fix: the file is cleared only while it still holds the bytes
\* this request read.
TruncateStep_IfUnchanged(w) ==
  /\ worker[w].pc = "truncate"
  /\ LET plan == ResolvePath(worker[w].resp, worker[w].request)
         f == FilePath(plan)
         t == IF FileAt(fs, f).data = worker[w].content THEN OpenWriteEmpty(fs, f)
              ELSE [exc |-> "none", fs |-> fs]
     IN  /\ fs' = t.fs
         /\ worker' = [worker EXCEPT ![w] =
              IF t.exc # "none"
              THEN [@ EXCEPT !.pc = "render", !.content = <<>>, !.len = 0]
              ELSE [@ EXCEPT !.pc = "render", !.truncated = TRUE,
                             !.erased = IF t.fs = fs THEN <<>> ELSE FileAt(fs, f).data]]
  /\ UNCHANGED <<writes, seqvars>>

\* build_content: open(filepath, "w") and write "" (lines 92-96, 100-102).
TruncateStep(w) ==
  /\ worker[w].pc = "truncate"
  /\ LET plan == ResolvePath(worker[w].resp, worker[w].request)
         f == FilePath(plan)
         t == OpenWriteEmpty(fs, f)
     IN  /\ fs' = t.fs
         /\ worker' = [worker EXCEPT ![w] =
              IF t.exc # "none"
              THEN [@ EXCEPT !.pc = "render", !.content = <<>>, !.len = 0]
              ELSE [@ EXCEPT !.pc = "render", !.truncated = TRUE,
                             !.erased = FileAt(fs, f).data]]
  /\ UNCHANGED <<writes, seqvars>>

\* build_response after build_content returned (lines 227-238).
RenderStep(w, now) ==
  /\ worker[w].pc = "render"
  /\ LET plan == ResolvePath(worker[w].resp, worker[w].request)
         b == BuildFile(worker[w].resp, plan, worker[w].len, worker[w].content,
                        worker[w].request, now)
     IN  worker' = [worker EXCEPT ![w] = [@ EXCEPT !.pc = "done", !.resp = b.resp,
                                                   !.out = b.out]]
  /\ UNCHANGED <<fs, writes, seqvars>>

\* Another party writes the queue file, at any moment.
ConcWrite(f, data) ==
  /\ writes < MaxWrites
  /\ writes' = writes + 1
  /\ fs' = Put(fs, f, [mode |-> IF fs[f].mode = "absent" THEN "rw" ELSE fs[f].mode,
                       data |-> data])
  /\ UNCHANGED <<worker, seqvars>>

NextConc ==
  \/ \E w \in Workers, request \in ConcRequests : Start(w, request)
  \/ \E w \in Workers : ReadStep(w)
  \/ \E w \in Workers : TruncateStep(w)
  \/ \E w \in Workers, now \in Dates : RenderStep(w, now)
  \/ \E data \in Contents \ {<<>>} : ConcWrite(AppsReturnJson, data)

SpecConc == Init /\ [][NextConc]_vars

\* ------------------------------------------------- reading a response back
HasBlank(o) == \E i \in 1..Len(o) : o[i].kind = "blank"

\* The blank line that ends the header block: the first one.
FirstBlank(o) ==
  CHOOSE i \in 1..Len(o) : o[i].kind = "blank" /\ \A j \in 1..(i - 1) : o[j].kind # "blank"

HeaderBlock(o) == SubSeq(o, 1, FirstBlank(o) - 1)

\* The bytes that follow the blank line.
BodyOf(o) == [i \in 1..(Len(o) - FirstBlank(o)) |-> o[FirstBlank(o) + i].name]

\* The values of the header lines of one name, in the order of the lines.
HeaderValues(block, name) ==
  LET Named(l) == l.kind = "header" /\ l.name = name
      lines == SelectSeq(block, Named)
  IN  [i \in 1..Len(lines) |-> lines[i].value]

\* The places of the header lines of one name.
HeaderPlaces(block, name) ==
  {i \in 1..Len(block) : block[i].kind = "header" /\ block[i].name = name}

\* The number on the Content-Length line of a response that has exactly one.
ContentLengthOf(o) == ParseDec(HeaderValues(HeaderBlock(o), "Content-Length")[1])

HasOneContentLength(o) ==
  LET v == HeaderValues(HeaderBlock(o), "Content-Length")
  IN  Len(v) = 1 /\ v[1] # <<>> /\ \A i \in 1..Len(v[1]) : IsDigit(v[1][i])

\* The status line's text after the status code.
ShownReason(o) ==
  LET t == o[1].value
      sp == CHOOSE i \in 1..Len(t) : t[i] = " " /\ \A j \in 1..(i - 1) : t[j] # " "
  IN  SubSeq(t, sp + 1, Len(t))

\* The status line's status code.
ShownCode(o) ==
  LET t == o[1].value
      sp == CHOOSE i \in 1..Len(t) : t[i] = " " /\ \A j \in 1..(i - 1) : t[j] # " "
  IN  SubSeq(t, 1, sp - 1)

\* The state right after a call of build_response returned.
AfterBuildResponse == pc = "done" /\ call.op = "build_response"

\* The call took the dynamic-JSON branch.
TookJsonBranch == call.pre.reason.tag \in {"dict", "list"}

\* The call took the file-backed branch and the resolver raised.
TookNotFound == ~TookJsonBranch /\ ResolvePath(call.pre, call.request).raised

\* The call took the file-backed branch and loaded content.
TookFileBranch == ~TookJsonBranch /\ ~ResolvePath(call.pre, call.request).raised

\* The file the call read, on the file-backed branch.
CallFile == FilePath(ResolvePath(call.pre, call.request))

\* ------------------------------------------------------------------ claims

\* C1: after build_response, for every Response whose reason was unset, a
\* string or a structured value and whose status_code was unset or set,
\* status_code is set and reason is a plain string.
C1_StatusSetAndReasonString ==
  (AfterBuildResponse /\ call.pre.reason.tag \in {"none", "str", "dict", "list"})
    => (resp.status_code.tag = "int" /\ resp.reason.tag = "str")

ExpectedJson(x) ==
  CASE x = PyDict(<<>>) -> <<"{", "}">>
    [] x = PyDict(<< <<"a", 1>> >>) -> <<"{", "\"", "a", "\"", ":", " ", "1", "}">>
    [] x = PyList(<<1, 2>>) -> <<"[", "1", ",", " ", "2", "]">>
    [] OTHER -> <<>>

\* C3: when reason holds a mapping or a list before build_response, the
\* body is that value's JSON serialization, the Content-Type line says
\* application/json, status_code is 200 if it was unset and the caller's
\* value otherwise, and reason is "OK" afterwards.
C3_DynamicJson ==
  (AfterBuildResponse /\ TookJsonBranch)
    => /\ BodyOf(out) = ExpectedJson(call.pre.reason)
       /\ HeaderValues(HeaderBlock(out), "Content-Type") = <<ApplicationJson>>
       /\ resp.status_code =
            IF call.pre.status_code.tag = "none" THEN PyInt(200) ELSE call.pre.status_code
       /\ ShownCode(out) = Format(resp.status_code)
       /\ resp.reason = PyStr(OK)

\* A non-empty mapping served with the caller's status code.
C3_Witness ==
  /\ AfterBuildResponse
  /\ call.pre.reason = PyDict(<< <<"a", 1>> >>)
  /\ call.pre.status_code = PyInt(404)
  /\ resp.reason = PyStr(OK)

\* The call read a file that a path ending in return.json names.
ReadQueueFile ==
  /\ AfterBuildResponse
  /\ TookFileBranch
  /\ EndsWith(ResolvePath(call.pre, call.request).path, ReturnJson)
  /\ CallFile \in QueueFiles

C6_MissingFileIsEmpty200 ==
  (AfterBuildResponse /\ ~TookJsonBranch) =>
    /\ (TookFileBranch /\ call.pre.status_code.tag = "none"
          /\ FileAt(call.fsPre, CallFile).mode \in {"absent", "unreadable"})
         => /\ ShownCode(out) = <<"2", "0", "0">>
            /\ ShownReason(out) = OK
            /\ resp.status_code = PyInt(200)
            /\ BodyOf(out) = <<>>
            /\ ContentLengthOf(out) = 0
    /\ (out = build_notfound) <=> TookNotFound

\* A request for an absent file, answered 200 with no body.
C6_Witness ==
  /\ AfterBuildResponse
  /\ TookFileBranch
  /\ call.pre.status_code.tag = "none"
  /\ FileAt(call.fsPre, CallFile).mode = "absent"
  /\ ShownCode(out) = <<"2", "0", "0">>
  /\ BodyOf(out) = <<>>

\* The main types prepare_content_type knows.
KnownMainTypes == {<<"text">>, <<"image">>, <<"application">>, <<"video">>}

\* C7: prepare_content_type never raises, sets headers['Content-Type'] to
\* its argument whatever the argument is, and returns the static directory
\* for an argument with no "/" or with an unknown main type.
C7_AlwaysSetsHeaderAndFallsBack ==
  (pc = "done" /\ call.op = "prepare_content_type") =>
    /\ ~call.raised
    /\ "Content-Type" \in DOMAIN resp.headers
    /\ resp.headers["Content-Type"] = PyStr(call.mime)
    /\ (Len(Split1(call.mime)) # 2 \/ Split1(call.mime)[1] \notin KnownMainTypes)
         => call.base_dir = <<"static", "/">>

\* The reason the header renderer last read: of the direct call, or the one
\* build_response left for it.
RenderedReason ==
  IF call.op = "build_response_header" THEN call.pre.reason ELSE resp.reason

\* The call rendered a header block.
RenderedHeader ==
  /\ pc = "done"
  /\ \/ call.op = "build_response_header"
     \/ call.op = "build_response" /\ ~TookNotFound

\* C8: the status line is 'HTTP/1.1 <status_code> <reason>', with "OK" in
\* place of the reason whenever reason is not a plain string when the header
\* is rendered.
C8_NonStringReasonShownAsOK ==
  RenderedHeader =>
    /\ out[1].kind = "status"
    /\ out[1].name = "HTTP/1.1"
    /\ RenderedReason.tag = "str" /\ RenderedReason.v # <<>> =>
         ShownReason(out) = RenderedReason.v
    /\ RenderedReason.tag # "str" => ShownReason(out) = OK

\* The Set-Cookie lines the cookies of the Response call for.
ExpectedSetCookie(cookies) ==
  [i \in 1..Len(cookies) |-> <<cookies[i][1], "=", cookies[i][2]>>]

\* C9: the rendered header block has no Set-Cookie line when there is no
\* cookie and, for N cookies, exactly N lines 'Set-Cookie: name=value', one
\* per cookie in insertion order, all after the Connection header.
C9_SetCookieLines ==
  RenderedHeader =>
    LET block == HeaderBlock(out)
    IN  /\ HeaderValues(block, "Set-Cookie") = ExpectedSetCookie(call.pre.cookies)
        /\ Cardinality(HeaderPlaces(block, "Set-Cookie")) = Len(call.pre.cookies)
        /\ Cardinality(HeaderPlaces(block, "Connection")) = 1
        /\ \A i \in HeaderPlaces(block, "Set-Cookie") :
             \A j \in HeaderPlaces(block, "Connection") : j < i

\* A response with two cookies, the later-set one last.
C9_Witness ==
  /\ RenderedHeader
  /\ call.pre.cookies = << <<"theme", "dark">>, <<"sid", "1">> >>
  /\ Len(HeaderValues(HeaderBlock(out), "Set-Cookie")) = 2

\* C10: a call changes a file only when it read that file successfully and
\* the file's name is exactly return.json; every other file, a failed read
\* and the dynamic-JSON branch leave the file system as it was.
C10_OnlyReturnJsonIsCleared ==
  AfterBuildResponse =>
    \A f \in Files :
      fs[f] # call.fsPre[f] =>
        /\ TookFileBranch
        /\ f = CallFile
        /\ OpenRead(call.fsPre, f).exc = "none"
        /\ Basename(f) = ReturnJson

\* The file a concurrent request reads.
WorkerFile(w) == FilePath(ResolvePath(worker[w].resp, worker[w].request))

\* C5: the read and the truncate of build_content are separate steps.  The
\* read step hands the request the file's bytes and leaves them in the file,
\* so a second request reading before the truncate gets the same bytes; the
\* truncate step empties the file whatever it holds by then, bytes written
\* or already cleared in between included, and the request still returns
\* exactly the bytes it read.
C5_ReadLeavesBytesTruncateErasesAny ==
  [][\A w \in Workers :
       /\ (worker[w].pc = "read" /\ worker'[w].pc # "read") =>
            /\ fs' = fs
            /\ OpenRead(fs, WorkerFile(w)).exc = "none" =>
                 /\ worker'[w].content = FileAt(fs, WorkerFile(w)).data
                 /\ worker'[w].pc = "truncate"
       /\ (worker[w].pc = "truncate" /\ worker'[w].pc # "truncate"
             /\ FileAt(fs, WorkerFile(w)).mode \in {"rw", "absent"}) =>
            /\ FileAt(fs', WorkerFile(w)).data = <<>>
            /\ worker'[w].content = worker[w].content
            /\ worker'[w].erased = FileAt(fs, WorkerFile(w)).data
       /\ (worker[w].pc = "render" /\ worker'[w].pc = "done") =>
            BodyOf(worker'[w].out) = worker[w].content
    ]_vars

\* The race: both requests returned the same bytes, both truncated the
\* file, and one of the truncations erased bytes written in between that no
\* request returned.
C5_Witness ==
  \E v \in Workers, w \in Workers :
    /\ v # w
    /\ worker[v].pc = "done" /\ worker[w].pc = "done"
    /\ worker[v].truncated /\ worker[w].truncated
    /\ BodyOf(worker[v].out) = BodyOf(worker[w].out)
    /\ BodyOf(worker[v].out) # <<>>
    /\ writes >= 1
    /\ worker[w].erased # <<>>
    /\ worker[w].erased # BodyOf(worker[v].out)

====
